---- MODULE Spec2Model ----
(***************************************************************************)
(* Model of the JWT authentication middleware `protect`                    *)
(* (middlewares/auth.middleware.js) and of the router that mounts it       *)
(* (routes/user.routes.js).                                                *)
(*                                                                         *)
(* A header value is a sequence of atoms.  The atom SP is one space        *)
(* character; every other atom is a run of characters without a space      *)
(* ("Bearer", "Basic", a compact JWT, ...).  String operations of the      *)
(* code (startsWith, split) are computed on these sequences.               *)
(***************************************************************************)
EXTENDS Integers, Sequences, FiniteSets, TLC

\* ---------------------------------------------------------------- bounds
NumRequests == 2      \* requests in flight at the same time
MaxExtra == 1         \* space-separated fragments after the token position

Requests == 1..NumRequests

\* ------------------------------------------------------- values and inputs
SP == " "
Undefined == "undefined"          \* the JavaScript value undefined
Absent == <<Undefined>>           \* req.headers.authorization is undefined

MsgNoToken == "Unauthorized, no token"
MsgInvalid == "Invalid or expired token"
MsgProtected == "This is a protected route"

\* values process.env.JWT_SECRET can have; "" stands for unset or empty
Secrets == {"s1", "s2", ""}

\* compact JWTs a client can present: the secret that signed it, whether its
\* exp claim is in the past, and the payload's id (if the payload has one)
SignedTokens ==
    ( "tA"    :> [secret |-> "s1", expired |-> FALSE, hasId |-> TRUE,  id |-> "42"] ) @@
    ( "tB"    :> [secret |-> "s1", expired |-> FALSE, hasId |-> TRUE,  id |-> "7"] ) @@
    ( "tC"    :> [secret |-> "s2", expired |-> FALSE, hasId |-> TRUE,  id |-> "42"] ) @@
    ( "tExp"  :> [secret |-> "s1", expired |-> TRUE,  hasId |-> TRUE,  id |-> "42"] ) @@
    ( "tNoId" :> [secret |-> "s1", expired |-> FALSE, hasId |-> FALSE, id |-> Undefined] )

\* strings without a space that can stand where a token is expected;
\* "xyz" is not a JWT at all
TokenAtoms == DOMAIN SignedTokens \cup {"xyz"}

\* a fragment that can follow the token position, after one more space
ExtraFrags == { <<"tA">> }

\* up to n further fragments, each behind one more space
RECURSIVE Extras(_)
Extras(n) ==
    IF n = 0 THEN { <<>> }
    ELSE Extras(n - 1) \cup
         { e \o <<SP>> \o f : e \in Extras(n - 1), f \in ExtraFrags }

\* token positions that are also tried with further fragments behind them
ExtendedFrags == { <<>>, <<"tA">>, <<"xyz">> }

\* the Authorization header values the requests are drawn from: the scheme
\* alone, the scheme with each token, with an empty token, with a trailing
\* space, and with further fragments
BearerHeaders ==
    { <<"Bearer">>, <<"Bearer", SP, "tA", SP>> } \cup
    { <<"Bearer", SP, a>> : a \in TokenAtoms } \cup
    { <<"Bearer", SP>> \o t \o e : t \in ExtendedFrags, e \in Extras(MaxExtra) }

OtherHeaders == { <<"Basic", SP, "xyz">>, <<"bearer", SP, "tA">>, <<"tA">> }

Headers == { Absent, <<>> } \cup BearerHeaders \cup OtherHeaders

Routes == {"POST /register", "POST /login", "GET /profile"}

\* the headers sent to a route; the two public routes never read the header,
\* one request without and one with a credential stand for all
RouteHeaders(rt) ==
    IF rt = "GET /profile" THEN Headers ELSE { Absent, <<"Bearer", SP, "tA">> }

\* what the stage invoked by next() does: it returns, or it throws
\* synchronously before sending anything
NextOutcomes == {"returns", "throws"}

\* ------------------------------------------------------------------ state
VARIABLES
    secret,      \* process.env.JWT_SECRET, set once when the process starts
    pc,          \* per request: "idle", "pending" (received), "done"
    route,       \* per request: method and path
    auth,        \* per request: req.headers.authorization
    reqUser,     \* per request: req.user
    stages,      \* per request: the stages that ran, in order
    verifyArgs,  \* per request: the tokens handed to jwt.verify, in order
    nextCalls,   \* per request: how often protect called next
    sent,        \* per request: the responses sent, in order
    escaped      \* per request: an exception left protect

vars == <<secret, pc, route, auth, reqUser, stages, verifyArgs, nextCalls, sent, escaped>>

Response(by, status, message, user) ==
    [by |-> by, status |-> status, message |-> message, user |-> user]

\* ------------------------------------------------------------ the code
\* String.prototype.startsWith
startsWith(s, prefix) ==
    /\ Len(s) >= Len(prefix)
    /\ SubSeq(s, 1, Len(prefix)) = prefix

BearerPrefix == <<"Bearer", SP>>

\* noToken without the test of the prefix: only a missing header is refused
noToken_onlyMissing(a) ==
    \/ a = Absent
    \/ a = <<>>

\* the condition of the first if: !auth || !auth.startsWith("Bearer ")
noToken(a) ==
    \/ a = Absent
    \/ a = <<>>
    \/ ~ startsWith(a, BearerPrefix)

\* String.prototype.split(" "): cuts at every space, keeps empty fragments
RECURSIVE splitAcc(_, _, _)
splitAcc(s, cur, acc) ==
    IF s = <<>> THEN Append(acc, cur)
    ELSE IF Head(s) = SP THEN splitAcc(Tail(s), <<>>, Append(acc, cur))
    ELSE splitAcc(Tail(s), Append(cur, Head(s)), acc)

split(s) == splitAcc(s, <<>>, <<>>)

\* tokenOf cutting at the first space only: everything after it is the token
tokenOf_rest(a) ==
    LET i == CHOOSE j \in DOMAIN a : a[j] = SP /\ \A k \in 1..(j - 1) : a[k] # SP
    IN  SubSeq(a, i + 1, Len(a))

\* auth.split(" ")[1]; an index past the end gives undefined, which
\* jwt.verify rejects like the empty string
tokenOf(a) ==
    LET parts == split(a)
    IN  IF Len(parts) >= 2 THEN parts[2] ELSE <<>>

\* jwtVerify that does not look at the exp claim
jwtVerify_ignoreExp(token, sec) ==
    IF /\ Len(token) = 1
       /\ token[1] \in DOMAIN SignedTokens
       /\ sec # ""
       /\ SignedTokens[token[1]].secret = sec
    THEN [threw |-> FALSE, payload |-> SignedTokens[token[1]]]
    ELSE [threw |-> TRUE, payload |-> SignedTokens["tNoId"]]

\* jwtVerify that decodes without checking the signature against the secret
jwtVerify_anySecret(token, sec) ==
    IF /\ Len(token) = 1
       /\ token[1] \in DOMAIN SignedTokens
       /\ ~ SignedTokens[token[1]].expired
    THEN [threw |-> FALSE, payload |-> SignedTokens[token[1]]]
    ELSE [threw |-> TRUE, payload |-> SignedTokens["tNoId"]]

\* jwt.verify(token, secret) without a callback: returns the payload, or
\* throws when the token is empty or not a JWT, the secret is missing, the
\* signature does not match the secret, or the token has expired
jwtVerify(token, sec) ==
    IF /\ Len(token) = 1
       /\ token[1] \in DOMAIN SignedTokens
       /\ sec # ""
       /\ SignedTokens[token[1]].secret = sec
       /\ ~ SignedTokens[token[1]].expired
    THEN [threw |-> FALSE, payload |-> SignedTokens[token[1]]]
    ELSE [threw |-> TRUE, payload |-> SignedTokens["tNoId"]]   \* payload unused

\* decoded.id
decodedId(payload) == IF payload.hasId THEN payload.id ELSE Undefined

\* the handler of GET /profile, run by next(): res.json({message, user: req.user})
profileHandler(user, d) ==
    IF d = "returns"
    THEN [threw |-> FALSE, sent |-> << Response("handler", 200, MsgProtected, user) >>]
    ELSE [threw |-> TRUE, sent |-> << >>]

\* tryBlock with next() called before the token is verified
tryBlock_nextFirst(token, sec, d) ==
    LET h == profileHandler(Undefined, d)
        v == jwtVerify(token, sec)
    IN  [threw |-> h.threw \/ v.threw,
         user |-> IF h.threw \/ v.threw THEN Undefined ELSE decodedId(v.payload),
         nextCalls |-> 1, stages |-> << "handler" >>, sent |-> h.sent]

\* the try block: decoded = jwt.verify(...); req.user = decoded.id; next()
tryBlock(token, sec, d) ==
    LET v == jwtVerify(token, sec)
    IN  IF v.threw
        THEN [threw |-> TRUE, user |-> Undefined, nextCalls |-> 0,
              stages |-> << >>, sent |-> << >>]
        ELSE LET h == profileHandler(decodedId(v.payload), d)
             IN  [threw |-> h.threw, user |-> decodedId(v.payload), nextCalls |-> 1,
                  stages |-> << "handler" >>, sent |-> h.sent]

\* catchBlock that rethrows instead of answering
catchBlock_rethrow(t) ==
    [sent |-> t.sent, escaped |-> t.threw]

\* the catch block: whatever the try block threw becomes a 401
catchBlock(t) ==
    IF t.threw
    THEN [sent |-> t.sent \o << Response("protect", 401, MsgInvalid, Undefined) >>,
          escaped |-> FALSE]
    ELSE [sent |-> t.sent, escaped |-> FALSE]

\* protect(req, res, next) as a function of the header, the secret and what
\* the stage behind next does
protect(a, sec, d) ==
    IF noToken(a)
    THEN [verifyArgs |-> << >>, user |-> Undefined, nextCalls |-> 0,
          stages |-> << "protect" >>,
          sent |-> << Response("protect", 401, MsgNoToken, Undefined) >>,
          escaped |-> FALSE]
    ELSE LET token == tokenOf(a)
             t == tryBlock(token, sec, d)
             c == catchBlock(t)
         IN  [verifyArgs |-> << token >>, user |-> t.user, nextCalls |-> t.nextCalls,
              stages |-> << "protect" >> \o t.stages,
              sent |-> c.sent, escaped |-> c.escaped]

\* ------------------------------------------------------------- actions
Init ==
    /\ secret \in Secrets
    /\ pc = [r \in Requests |-> "idle"]
    /\ route = [r \in Requests |-> "none"]
    /\ auth = [r \in Requests |-> Absent]
    /\ reqUser = [r \in Requests |-> Undefined]
    /\ stages = [r \in Requests |-> << >>]
    /\ verifyArgs = [r \in Requests |-> << >>]
    /\ nextCalls = [r \in Requests |-> 0]
    /\ sent = [r \in Requests |-> << >>]
    /\ escaped = [r \in Requests |-> FALSE]

\* a request is received
Receive(r) ==
    /\ pc[r] = "idle"
    /\ \E rt \in Routes : \E a \in RouteHeaders(rt) :
         /\ route' = [route EXCEPT ![r] = rt]
         /\ auth' = [auth EXCEPT ![r] = a]
    /\ pc' = [pc EXCEPT ![r] = "pending"]
    /\ UNCHANGED <<secret, reqUser, stages, verifyArgs, nextCalls, sent, escaped>>

\* router.post("/register", registerUser)
Register(r) ==
    /\ pc[r] = "pending"
    /\ route[r] = "POST /register"
    /\ stages' = [stages EXCEPT ![r] = << "registerUser" >>]
    /\ pc' = [pc EXCEPT ![r] = "done"]
    /\ UNCHANGED <<secret, route, auth, reqUser, verifyArgs, nextCalls, sent, escaped>>

\* router.post("/login", loginUser)
Login(r) ==
    /\ pc[r] = "pending"
    /\ route[r] = "POST /login"
    /\ stages' = [stages EXCEPT ![r] = << "loginUser" >>]
    /\ pc' = [pc EXCEPT ![r] = "done"]
    /\ UNCHANGED <<secret, route, auth, reqUser, verifyArgs, nextCalls, sent, escaped>>

\* Profile with the decoded identity kept in one variable of the module, shared
\* by all requests, instead of on the request
Profile_sharedUser(r) ==
    /\ pc[r] = "pending"
    /\ route[r] = "GET /profile"
    /\ \E d \in NextOutcomes :
         LET p == protect(auth[r], secret, d)
         IN  /\ reqUser' = [q \in Requests |-> p.user]
             /\ stages' = [stages EXCEPT ![r] = p.stages]
             /\ verifyArgs' = [verifyArgs EXCEPT ![r] = p.verifyArgs]
             /\ nextCalls' = [nextCalls EXCEPT ![r] = p.nextCalls]
             /\ sent' = [sent EXCEPT ![r] = p.sent]
             /\ escaped' = [escaped EXCEPT ![r] = p.escaped]
    /\ pc' = [pc EXCEPT ![r] = "done"]
    /\ UNCHANGED <<secret, route, auth>>

\* router.get("/profile", protect, handler): protect runs to completion,
\* the handler inside its call of next
Profile(r) ==
    /\ pc[r] = "pending"
    /\ route[r] = "GET /profile"
    /\ \E d \in NextOutcomes :
         LET p == protect(auth[r], secret, d)
         IN  /\ reqUser' = [reqUser EXCEPT ![r] = p.user]
             /\ stages' = [stages EXCEPT ![r] = p.stages]
             /\ verifyArgs' = [verifyArgs EXCEPT ![r] = p.verifyArgs]
             /\ nextCalls' = [nextCalls EXCEPT ![r] = p.nextCalls]
             /\ sent' = [sent EXCEPT ![r] = p.sent]
             /\ escaped' = [escaped EXCEPT ![r] = p.escaped]
    /\ pc' = [pc EXCEPT ![r] = "done"]
    /\ UNCHANGED <<secret, route, auth>>

Next ==
    \/ \E r \in Requests : Receive(r)
    \/ \E r \in Requests : Register(r)
    \/ \E r \in Requests : Login(r)
    \/ \E r \in Requests : Profile(r)

Spec == Init /\ [][Next]_vars

\* ------------------------------------------------- vocabulary of the claims
ProfileDone(r) == pc[r] = "done" /\ route[r] = "GET /profile"

\* the header is present and starts with the scheme prefix "Bearer "
HasBearerPrefix(a) ==
    /\ a # Absent
    /\ Len(a) >= 2
    /\ a[1] = "Bearer"
    /\ a[2] = SP

\* tok is a JWT signed with the secret sec, sec is set, and tok has not expired
ValidFor(tok, sec) ==
    /\ sec # ""
    /\ \E k \in DOMAIN SignedTokens :
         /\ tok = << k >>
         /\ SignedTokens[k].secret = sec
         /\ ~ SignedTokens[k].expired

\* the elements of a sequence
Seq0(q) == { q[i] : i \in DOMAIN q }

By401(msg) == Response("protect", 401, msg, Undefined)

ProtectSent(r) == SelectSeq(sent[r], LAMBDA m : m.by = "protect")

\* ------------------------------------------------------------------ claims

\* C1: whenever protect has called next for a request, that request's
\* Authorization header was present, started with "Bearer ", carried a
\* non-empty token, and that token verified against the secret in force.
C1_NextOnlyAfterVerifiedBearer ==
    \A r \in Requests :
        nextCalls[r] > 0 =>
            /\ HasBearerPrefix(auth[r])
            /\ Len(auth[r]) >= 3
            /\ auth[r][3] # SP
            /\ verifyArgs[r] = << << auth[r][3] >> >>
            /\ ValidFor(<< auth[r][3] >>, secret)

C1_Witness ==
    \E r \in Requests :
        /\ ProfileDone(r)
        /\ nextCalls[r] = 1
        /\ auth[r] = <<"Bearer", SP, "tA">>
        /\ secret = "s1"

\* C2: a request without an Authorization header, or with one that does not
\* start with the case-sensitive prefix "Bearer ", gets exactly the response
\* 401 "Unauthorized, no token"; next is not called and no token is verified.
C2_NoTokenRejected ==
    \A r \in Requests :
        (ProfileDone(r) /\ ~ HasBearerPrefix(auth[r])) =>
            /\ sent[r] = << By401(MsgNoToken) >>
            /\ nextCalls[r] = 0
            /\ verifyArgs[r] = << >>
            /\ stages[r] = << "protect" >>

C2_Witness ==
    /\ \E r \in Requests : ProfileDone(r) /\ auth[r] = <<"Basic", SP, "xyz">>
                           /\ sent[r] = << By401(MsgNoToken) >>
    /\ \E r \in Requests : ProfileDone(r) /\ auth[r] \in {Absent, <<"bearer", SP, "tA">>}
                           /\ sent[r] = << By401(MsgNoToken) >>

\* C3: a request whose header starts with "Bearer " but whose token fails
\* verification (not a JWT, other secret, expired, empty) gets exactly the
\* response 401 "Invalid or expired token", whatever the reason, and the
\* downstream stage is not run.
C3_InvalidTokenRejected ==
    \A r \in Requests :
        ( /\ ProfileDone(r)
          /\ HasBearerPrefix(auth[r])
          /\ \A tok \in Seq0(verifyArgs[r]) : ~ ValidFor(tok, secret) ) =>
            /\ sent[r] = << By401(MsgInvalid) >>
            /\ nextCalls[r] = 0
            /\ stages[r] = << "protect" >>

C3_Witness ==
    /\ secret = "s1"
    /\ \E r \in Requests : ProfileDone(r) /\ auth[r] = <<"Bearer", SP>>
                           /\ sent[r] = << By401(MsgInvalid) >>
    /\ \E r \in Requests : ProfileDone(r)
                           /\ auth[r] \in { <<"Bearer", SP, "tC">>, <<"Bearer", SP, "tExp">>,
                                            <<"Bearer", SP, "xyz">> }
                           /\ sent[r] = << By401(MsgInvalid) >>

\* C4: a request carrying "Bearer <token>" with a token signed with the
\* secret in force and unexpired is admitted: next is called, protect sends
\* no response itself, and req.user is the id of the token's payload.
C4_ValidTokenAdmitted ==
    \A r \in Requests : \A k \in DOMAIN SignedTokens :
        ( /\ ProfileDone(r)
          /\ auth[r] = <<"Bearer", SP, k>>
          /\ ValidFor(<< k >>, secret) ) =>
            /\ nextCalls[r] = 1
            /\ ProtectSent(r) = << >>
            /\ reqUser[r] = SignedTokens[k].id

\* C5: a handled request has exactly one outcome: admitted (next called once,
\* no 401 from protect) or rejected (one 401 from protect, next not called).
C5_ExactlyOneOutcome ==
    \A r \in Requests :
        ProfileDone(r) =>
            \/ nextCalls[r] = 1 /\ ProtectSent(r) = << >>
            \/ nextCalls[r] = 0 /\ Len(ProtectSent(r)) = 1 /\ ProtectSent(r)[1].status = 401

\* C6 as stated: the verified token is everything after the first space.
C6_TokenIsWholeRemainder ==
    \A r \in Requests :
        verifyArgs[r] # << >> =>
            verifyArgs[r] = << SubSeq(auth[r], 3, Len(auth[r])) >>

\* C6 amended: the verified token is the second fragment of the header cut at
\* every space, that is the text between the first space and the next space
\* (or the end of the header); what follows a second space is ignored.
C6_TokenIsSecondFragment ==
    \A r \in Requests :
        verifyArgs[r] # << >> =>
            LET rest == SubSeq(auth[r], 3, Len(auth[r]))
                tok == verifyArgs[r][1]
            IN  /\ Len(verifyArgs[r]) = 1
                /\ HasBearerPrefix(auth[r])
                /\ Len(tok) <= Len(rest)
                /\ SubSeq(rest, 1, Len(tok)) = tok
                /\ \A i \in DOMAIN tok : tok[i] # SP
                /\ Len(rest) > Len(tok) => rest[Len(tok) + 1] = SP

C6_Witness ==
    /\ secret = "s1"
    /\ \E r \in Requests :
         /\ ProfileDone(r)
         /\ auth[r] = <<"Bearer", SP, "tA", SP, "tA">>
         /\ verifyArgs[r] = << <<"tA">> >>
         /\ nextCalls[r] = 1
    /\ \E r \in Requests :
         /\ ProfileDone(r)
         /\ auth[r] = <<"Bearer", SP, SP, "tA">>
         /\ verifyArgs[r] = << << >> >>
         /\ sent[r] = << By401(MsgInvalid) >>

C9_InvalidOnlyForFailedVerification ==
    \A r \in Requests : \A i \in DOMAIN sent[r] :
        sent[r][i].message = MsgInvalid =>
            /\ verifyArgs[r] # << >>
            /\ ~ ValidFor(verifyArgs[r][1], secret)

\* everything the program holds about one request
Fields(r) ==
    <<pc[r], route[r], auth[r], reqUser[r], stages[r], verifyArgs[r],
      nextCalls[r], sent[r], escaped[r]>>

C8_Inv ==
    /\ \A r, q \in Requests :
         (ProfileDone(r) /\ ProfileDone(q) /\ auth[r] = auth[q]) =>
            /\ nextCalls[r] = nextCalls[q]
            /\ reqUser[r] = reqUser[q]
            /\ verifyArgs[r] = verifyArgs[q]
            /\ nextCalls[r] = 0 => sent[r] = sent[q]
    /\ \A r \in Requests :
         reqUser[r] # Undefined =>
            /\ HasBearerPrefix(auth[r])
            /\ Len(auth[r]) >= 3
            /\ auth[r][3] \in DOMAIN SignedTokens
            /\ reqUser[r] = SignedTokens[auth[r][3]].id

C8_Step ==
    \A r \in Requests :
        /\ pc[r] = "done" => Fields(r)' = Fields(r)
        /\ Fields(r)' # Fields(r) =>
              \A q \in Requests \ {r} : Fields(q)' = Fields(q)

C10_ProfileBehindProtect ==
    \A r \in Requests :
        /\ "handler" \in Seq0(stages[r]) =>
              /\ route[r] = "GET /profile"
              /\ stages[r] = << "protect", "handler" >>
              /\ nextCalls[r] = 1
              /\ verifyArgs[r] # << >>
              /\ ValidFor(verifyArgs[r][1], secret)
        /\ nextCalls[r] = 0 => "handler" \notin Seq0(stages[r])
        /\ \A i \in DOMAIN sent[r] :
              sent[r][i].by = "handler" =>
                 /\ i = 1
                 /\ "handler" \in Seq0(stages[r])
                 /\ sent[r][i] = Response("handler", 200, MsgProtected, reqUser[r])
        /\ (pc[r] = "done" /\ route[r] = "POST /register") =>
              /\ stages[r] = << "registerUser" >>
              /\ verifyArgs[r] = << >> /\ nextCalls[r] = 0 /\ sent[r] = << >>
        /\ (pc[r] = "done" /\ route[r] = "POST /login") =>
              /\ stages[r] = << "loginUser" >>
              /\ verifyArgs[r] = << >> /\ nextCalls[r] = 0 /\ sent[r] = << >>

C10_Witness ==
    /\ \E r \in Requests :
         /\ ProfileDone(r)
         /\ stages[r] = << "protect", "handler" >>
         /\ sent[r] = << Response("handler", 200, MsgProtected, "42") >>
    /\ \E r \in Requests :
         /\ pc[r] = "done"
         /\ route[r] \in {"POST /register", "POST /login"}
         /\ auth[r] = Absent
         /\ stages[r] \in { << "registerUser" >>, << "loginUser" >> }

====
